---- MODULE Spec2Model ----
(***************************************************************************)
(* A model of the PNCT container tracking chain:                           *)
(*   - the projection _extract_data_by_intent (activities/pnct_activities) *)
(*   - the activity scrape_pnct_activity and its single upstream GET       *)
(*   - the workflow PNCTScrapeWorkflow.run with its retry policy           *)
(*   - the POST /scrape handler that starts the workflow (scraper_api)     *)
(*   - the tool server in front of it (mcp_tools/http_server)              *)
(*   - ContainerAgent.call_mcp_tool and process_query (agent)              *)
(*                                                                         *)
(* Python values are written as their repr in a TLA+ string: the string    *)
(* 'HOLD' is "'HOLD'", the integer 2 is "2", None is "None", True is       *)
(* "True".  A raw record is a function whose DOMAIN is the set of keys the *)
(* upstream JSON object holds, so a missing key and a null value differ.   *)
(***************************************************************************)
EXTENDS Integers, Sequences, FiniteSets, TLC

VARIABLES
    \* --- projection (ProjSpec) ---
    record,      \* the raw container record handed to _extract_data_by_intent
    intent,      \* the intent of the last projection, or NoIntent
    view,        \* the projected view returned, or NoView
    clock,       \* datetime.utcnow(), as a counter
    \* --- one call of the activity (ActSpec) ---
    call,        \* [container_id, intent, outcome]: the arguments, and what the
                 \* upstream answers if it is asked
    actResult,   \* what scrape_pnct_activity returned or raised, or NoResult
    getCount,    \* HTTP GET requests issued to the upstream so far
    \* --- the chain POST /scrape -> workflow -> activity (Spec) ---
    req,         \* per request to POST /scrape: its body, position and response
    wf,          \* per request: the workflow execution it started, if any
    timing,      \* TimedSpec: the time, and when each attempt started and ended
    \* --- the callers of POST /scrape (ToolSpec, AgentSpec) ---
    tool,        \* one request to the tool server and what became of it
    agent        \* one call of ContainerAgent.process_query

projVars == <<record, intent, view>>
actVars == <<call, actResult, getCount>>
sysVars == <<req, wf, timing>>
callerVars == <<tool, agent>>
vars == <<record, intent, view, clock, call, actResult, getCount, req, wf, timing,
          tool, agent>>

----------------------------------------------------------------------------
(* Python value helpers *)

Absent == "<absent>"
None == "None"
NoIntent == "<none>"
NoView == [none |-> TRUE]

\* bool(v) for the scalar values of a JSON document
Truthy(v) == v \notin {"None", "''", "0", "0.0", "False"}

\* a == b for the scalar values of a JSON document (2 == 2.0 in Python)
PyNum(v) == IF v = "2.0" THEN "2" ELSE IF v = "0.0" THEN "0" ELSE v
PyEq(a, b) == PyNum(a) = PyNum(b)

\* a or b
PyOr(a, b) == IF Truthy(a) THEN a ELSE b

\* str(v), as an f-string formats it
PyStr(v) ==
    CASE v = "'DAMAGE'" -> "DAMAGE"
      [] v = "'HOLD'" -> "HOLD"
      [] v = "'RELEASED'" -> "RELEASED"
      [] v = "'PENDING'" -> "PENDING"
      [] v = "''" -> ""
      [] OTHER -> v

\* dict.get(key): the default is not passed
Get_without_default(data, key, default) ==
    IF key \in DOMAIN data THEN data[key] ELSE None

\* dict.get(key, default)
Get(data, key, default) == IF key \in DOMAIN data THEN data[key] ELSE default

\* the JSON object with the keys of assign that are not Absent
MkRecord(assign) ==
    [k \in {x \in DOMAIN assign : assign[x] # Absent} |-> assign[k]]

----------------------------------------------------------------------------
(* _extract_data_by_intent *)

ValidIntents == {"status", "location", "availability", "holds", "last_free_day", "all"}

AppendIf(cond, seq, label) == IF cond THEN Append(seq, label) ELSE seq

\* _has_holds with the customs test written == "HOLD" instead of != "RELEASED"
_has_holds_customs_eq_hold(data) ==
    LET h1 == AppendIf(PyEq(Get(data, "CarrierReleaseStatus", None), "'HOLD'"),
                       <<>>, "Carrier Hold")
        h2 == AppendIf(PyEq(Get(data, "CustomReleaseStatus", None), "'HOLD'"),
                       h1, "Customs Hold")
        h3 == AppendIf(~PyEq(Get(data, "UsdaStatus", None), "'RELEASED'"),
                       h2, "USDA Hold")
        h4 == AppendIf(Truthy(Get(data, "YardReleaseStatus", None))
                         /\ ~PyEq(Get(data, "YardReleaseStatus", None), "'RELEASED'"),
                       h3, "Yard Hold")
        h5 == AppendIf(Truthy(Get(data, "MiscHoldStatus", None)),
                       h4, "Misc Hold: " \o PyStr(Get(data, "MiscHoldStatus", None)))
        h6 == AppendIf(Truthy(Get(data, "IsTerminalHold", None)), h5, "Terminal Hold")
    IN <<Len(h6) > 0, h6>>

\* _has_holds with the terminal test placed before the yard test
_has_holds_terminal_first(data) ==
    LET h1 == AppendIf(PyEq(Get(data, "CarrierReleaseStatus", None), "'HOLD'"),
                       <<>>, "Carrier Hold")
        h2 == AppendIf(~PyEq(Get(data, "CustomReleaseStatus", None), "'RELEASED'"),
                       h1, "Customs Hold")
        h3 == AppendIf(~PyEq(Get(data, "UsdaStatus", None), "'RELEASED'"),
                       h2, "USDA Hold")
        h4 == AppendIf(Truthy(Get(data, "IsTerminalHold", None)), h3, "Terminal Hold")
        h5 == AppendIf(Truthy(Get(data, "YardReleaseStatus", None))
                         /\ ~PyEq(Get(data, "YardReleaseStatus", None), "'RELEASED'"),
                       h4, "Yard Hold")
        h6 == AppendIf(Truthy(Get(data, "MiscHoldStatus", None)),
                       h5, "Misc Hold: " \o PyStr(Get(data, "MiscHoldStatus", None)))
    IN <<Len(h6) > 0, h6>>

\* _has_holds: (len(holds) > 0, holds)
_has_holds(data) ==
    LET h1 == AppendIf(PyEq(Get(data, "CarrierReleaseStatus", None), "'HOLD'"),
                       <<>>, "Carrier Hold")
        h2 == AppendIf(~PyEq(Get(data, "CustomReleaseStatus", None), "'RELEASED'"),
                       h1, "Customs Hold")
        h3 == AppendIf(~PyEq(Get(data, "UsdaStatus", None), "'RELEASED'"),
                       h2, "USDA Hold")
        h4 == AppendIf(Truthy(Get(data, "YardReleaseStatus", None))
                         /\ ~PyEq(Get(data, "YardReleaseStatus", None), "'RELEASED'"),
                       h3, "Yard Hold")
        h5 == AppendIf(Truthy(Get(data, "MiscHoldStatus", None)),
                       h4, "Misc Hold: " \o PyStr(Get(data, "MiscHoldStatus", None)))
        h6 == AppendIf(Truthy(Get(data, "IsTerminalHold", None)), h5, "Terminal Hold")
    IN <<Len(h6) > 0, h6>>

\* a status view that also carries a field of the location view
StatusView_with_yard_name(d, t) ==
    [status |-> Get(d, "State", "'Unknown'"),
     container_state |-> Get(d, "ContainerState", "'Unknown'"),
     location |-> Get(d, "Location", "'Unknown'"),
     yard_name |-> Get(d, "YardName", None),
     last_updated |-> t]

StatusView(d, t) ==
    [status |-> Get(d, "State", "'Unknown'"),
     container_state |-> Get(d, "ContainerState", "'Unknown'"),
     location |-> Get(d, "Location", "'Unknown'"),
     available |-> PyEq(Get(d, "Available", "0"), "2"),
     availability_display_status |-> Get(d, "AvailabilityDisplayStatus", "'Unknown'"),
     last_updated |-> t]

LocationBase(d, t) ==
    [location |-> Get(d, "Location", "'Unknown'"),
     yard_name |-> Get(d, "YardName", None),
     block |-> Get(d, "Block", None),
     bay |-> Get(d, "Bay", None),
     position |-> Get(d, "Position", None),
     state |-> Get(d, "State", "'Unknown'"),
     container_state |-> Get(d, "ContainerState", "'Unknown'"),
     last_updated |-> t]

Coordinates == [lat |-> "40.7032", lon |-> "-74.1468"]

LocationView(d, t) ==
    IF Truthy(Get(d, "Block", None)) /\ Truthy(Get(d, "Bay", None))
    THEN LocationBase(d, t) @@ ("coordinates" :> Coordinates)
    ELSE LocationBase(d, t)

AvailabilityView(d, t) ==
    LET available == PyEq(Get(d, "Available", "0"), "2")
        has_holds == _has_holds(d)[1]
    IN [available |-> available,
        availability_display_status |-> Get(d, "AvailabilityDisplayStatus", "'No'"),
        available_for_pickup |-> (available /\ ~has_holds),
        order_of_accessibility |-> Get(d, "OrderOfAccessibility", None),
        last_updated |-> t]

HoldsView(d, t) ==
    [has_holds |-> _has_holds(d)[1],
     hold_types |-> _has_holds(d)[2],
     carrier_release_status |-> Get(d, "CarrierReleaseStatus", None),
     custom_release_status |-> Get(d, "CustomReleaseStatus", None),
     usda_status |-> Get(d, "UsdaStatus", None),
     yard_release_status |-> Get(d, "YardReleaseStatus", None),
     misc_hold_status |-> Get(d, "MiscHoldStatus", None),
     misc_hold_detail |-> Get(d, "MiscHoldDetail", None),
     is_terminal_hold |-> Get(d, "IsTerminalHold", "False"),
     carrier_hold |-> Get(d, "CarrierHold", "0"),
     last_updated |-> t]

LastFreeDayView(d, t) ==
    [last_free_date |-> PyOr(Get(d, "LastFreeDate", None), Get(d, "LastFreeDt", None)),
     line_last_free_date |->
         PyOr(Get(d, "LineLastFreeDate", None), Get(d, "LineLastFreeDt", None)),
     free_days |-> Get(d, "FreeDays", "'0'"),
     first_free_date |-> Get(d, "FirstFreeDate", None),
     demurrage_due_flag |-> Get(d, "DemurrageDueFlag", None),
     demurrage_amount |-> Get(d, "DemurrageAmount", "0.0"),
     line_demurrage_amount |-> Get(d, "LineDemurrageAmount", "0.0"),
     is_on_demurrage_warning |-> Get(d, "IsOnDemurrageWarning", "False"),
     last_updated |-> t]

\* the branch intent == "all": the location section is built without coordinates
AllView(d, ts) ==
    [status |-> StatusView(d, ts[1]),
     location |-> LocationBase(d, ts[2]),
     availability |-> AvailabilityView(d, ts[3]),
     holds |-> HoldsView(d, ts[4]),
     last_free_day |-> LastFreeDayView(d, ts[5])]

RawView(d, t) == [raw_data |-> d, last_updated |-> t]

\* ts: the five readings of utcnow() a call can make, in order; a single
\* intent reads the clock once (ts[1])
_extract_data_by_intent(container_data, int, ts) ==
    CASE int = "status" -> StatusView(container_data, ts[1])
      [] int = "location" -> LocationView(container_data, ts[1])
      [] int = "availability" -> AvailabilityView(container_data, ts[1])
      [] int = "holds" -> HoldsView(container_data, ts[1])
      [] int = "last_free_day" -> LastFreeDayView(container_data, ts[1])
      [] int = "all" -> AllView(container_data, ts)
      [] OTHER -> RawView(container_data, ts[1])

----------------------------------------------------------------------------
(* The upstream GET and scrape_pnct_activity *)

NoCall == [none |-> TRUE]
NoResult == [none |-> TRUE]

\* JSON documents: what response.json() returns
JNull == [t |-> "null"]
JScalar(v) == [t |-> "scalar", v |-> v]
JObj(o) == [t |-> "object", obj |-> o]
JArr(items) == [t |-> "array", items |-> items]
\* a body json() cannot parse (an HTML page, zero bytes)
JInvalid == [t |-> "invalid"]

\* bool(x) of a parsed document
DocTruthy(d) ==
    CASE d.t = "null" -> FALSE
      [] d.t = "scalar" -> Truthy(d.v)
      [] d.t = "object" -> DOMAIN d.obj # {}
      [] d.t = "array" -> Len(d.items) > 0

\* what the upstream does with one GET
TransportFailure(e) == [kind |-> "transport", err |-> e]
Response(status, body) == [kind |-> "response", status |-> status, body |-> body]

Raise(exc, status, text, detail) ==
    [tag |-> "raise", exc |-> exc, status |-> status, text |-> text, detail |-> detail]
Return(value) == [tag |-> "return", value |-> value]

\* raise_for_status() raising for 4xx and 5xx only
IsSuccess_below_400(status) == status < 400

\* Response.raise_for_status(): raises HTTPStatusError unless the status is 2xx
IsSuccess(status) == 200 <= status /\ status <= 299

\* _fetch_container_from_api: one GET, raise_for_status(), json(), first element
_fetch_container_from_api(outcome) ==
    IF outcome.kind = "transport"
    THEN Raise("RequestError", 0, JNull, outcome.err)
    ELSE IF ~IsSuccess(outcome.status)
    THEN Raise("HTTPStatusError", outcome.status, outcome.body, "")
    ELSE IF outcome.body.t = "invalid"
    THEN Raise("JSONDecodeError", 0, JNull, "")
    ELSE IF outcome.body.t = "array" /\ Len(outcome.body.items) > 0
    THEN Return(outcome.body.items[1])
    ELSE IF outcome.body.t = "object"
    THEN Return(outcome.body)
    ELSE Return(JNull)

\* an exception leaving the activity: its class, the fixed part of its message
\* and the values formatted into the message
Error(exc, msg, status, text, detail) ==
    [ok |-> FALSE, exc |-> exc, msg |-> msg, status |-> status, text |-> text,
     detail |-> detail]
Ok(value) == [ok |-> TRUE, value |-> value]

\* the length test written < 3
MinIdLen_three == 4 - 1
MinIdLen == 4

\* scrape_pnct_activity: [result, gets], gets the number of GETs it issued
scrape_pnct_activity(container_id, int, outcome, ts) ==
    IF Len(container_id) = 0 \/ Len(container_id) < MinIdLen
    THEN [result |-> Error("ValueError", "Invalid container ID format", 0, JNull, ""),
          gets |-> 0]
    ELSE LET f == _fetch_container_from_api(outcome)
             r == IF f.tag = "raise"
                  THEN CASE f.exc = "HTTPStatusError" ->
                              IF f.status = 404
                              THEN Error("ValueError", "Container not found", 0, JNull, "")
                              ELSE Error("Exception", "API error", f.status, f.text, "")
                         [] f.exc = "RequestError" ->
                              Error("Exception", "Network error", 0, JNull, f.detail)
                         [] OTHER -> Error(f.exc, "", 0, JNull, "")
                  ELSE IF ~DocTruthy(f.value)
                  THEN Error("ValueError", "Container not found in PNCT system",
                             0, JNull, "")
                  ELSE IF f.value.t # "object"
                  THEN Error("AttributeError", "object has no attribute 'get'",
                             0, JNull, "")
                  ELSE Ok([container_id |-> container_id, intent |-> int,
                           data |-> _extract_data_by_intent(f.value.obj, int, ts),
                           scraped_at |-> ts[6]])
         IN [result |-> r, gets |-> 1]

\* the failure kinds of the specification, read off the exception raised
ErrorKind(e) ==
    CASE e.exc = "ValueError" /\ e.msg = "Invalid container ID format" -> "InvalidInput"
      [] e.exc = "ValueError" /\ e.msg \in {"Container not found",
                                            "Container not found in PNCT system"}
           -> "NotFound"
      [] e.exc = "Exception" /\ e.msg = "API error" -> "UpstreamError"
      [] e.exc = "Exception" /\ e.msg = "Network error" -> "NetworkError"
      [] e.exc = "TimeoutError" -> "Timeout"
      [] OTHER -> "Untyped"

----------------------------------------------------------------------------
(* The raw records the projection is applied to *)

MaxClock == 1

HoldKeys == {"CarrierReleaseStatus", "CustomReleaseStatus", "UsdaStatus",
             "YardReleaseStatus", "MiscHoldStatus", "IsTerminalHold"}

\* every combination of the six hold-triggering fields and of Available
HoldRecords ==
    {MkRecord([CarrierReleaseStatus |-> c, CustomReleaseStatus |-> u,
               UsdaStatus |-> a, YardReleaseStatus |-> y, MiscHoldStatus |-> m,
               IsTerminalHold |-> h, Available |-> v]) :
        c \in {Absent, "'HOLD'", "'RELEASED'"},
        u \in {Absent, None, "'RELEASED'", "'PENDING'"},
        a \in {Absent, "'RELEASED'", "'PENDING'"},
        y \in {Absent, "''", "'RELEASED'", "'HOLD'"},
        m \in {Absent, "''", "'DAMAGE'"},
        h \in {Absent, "False", "True"},
        v \in {Absent, "1", "2", "2.0", "'2'"}}

ReleasedPart ==
    [CarrierReleaseStatus |-> "'RELEASED'", CustomReleaseStatus |-> "'RELEASED'",
     UsdaStatus |-> "'RELEASED'", Available |-> "2"]

\* the fields the views copy: all missing, all null, or all set
PassThroughPart(p) ==
    LET v(x) == IF p = "missing" THEN Absent ELSE IF p = "null" THEN None ELSE x
    IN MkRecord([State |-> v("'In Yard'"), ContainerState |-> v("'FULL'"),
                 Location |-> v("'Y-PNCT'"), YardName |-> v("'PNCT'"),
                 Position |-> v("'A1204.1'"),
                 AvailabilityDisplayStatus |-> v("'Yes'"),
                 OrderOfAccessibility |-> v("3"), MiscHoldDetail |-> v("'x-ray'"),
                 CarrierHold |-> v("1"), FreeDays |-> v("'4'"),
                 FirstFreeDate |-> v("'2024-01-02'"), DemurrageDueFlag |-> v("'N'"),
                 DemurrageAmount |-> v("125.5"), LineDemurrageAmount |-> v("10.0"),
                 IsOnDemurrageWarning |-> v("True")])

LocationRecords ==
    {MkRecord([Block |-> b, Bay |-> y, LastFreeDate |-> d, LastFreeDt |-> e,
               LineLastFreeDate |-> d, LineLastFreeDt |-> e])
        @@ PassThroughPart(p) @@ r :
        b \in {Absent, None, "''", "'A'"},
        y \in {Absent, None, "0", "'12'"},
        d \in {Absent, "''", "'2024-01-05'"},
        e \in {Absent, "'2024-01-06'"},
        p \in {"missing", "null", "set"},
        r \in {<<>>, ReleasedPart}}

RawRecords == HoldRecords \cup LocationRecords

AllIntents == ValidIntents \cup {"bogus"}

\* the readings of utcnow() one call can make: non-decreasing, from now on
\* (five in _extract_data_by_intent, a sixth for scraped_at)
Stamps(now) ==
    {ts \in [1..6 -> {now, now + 1}] : \A i \in 1..5 : ts[i] <= ts[i + 1]}

----------------------------------------------------------------------------
(* ProjSpec: _extract_data_by_intent applied to a raw record *)

ProjIdle == record = <<>> /\ intent = NoIntent /\ view = NoView
ActIdle == call = NoCall /\ actResult = NoResult /\ getCount = 0
SysIdle == req = <<>> /\ wf = <<>> /\ timing = <<>>
CallerIdle == tool = <<>> /\ agent = <<>>

ProjInit ==
    /\ record \in RawRecords
    /\ intent = NoIntent
    /\ view = NoView
    /\ clock = 0
    /\ ActIdle
    /\ SysIdle
    /\ CallerIdle

Project(i) ==
    /\ clock < MaxClock
    /\ \E ts \in Stamps(clock) :
          view' = _extract_data_by_intent(record, i, ts)
    /\ intent' = i
    /\ clock' = clock + 1
    /\ UNCHANGED <<record, actVars, sysVars, callerVars>>

ProjNext == \E i \in AllIntents : Project(i)

ProjSpec == ProjInit /\ [][ProjNext]_vars

----------------------------------------------------------------------------
(* Claims about the projection *)

\* the six hold conditions, as the specification lists them
CarrierCond(r) == "CarrierReleaseStatus" \in DOMAIN r /\ r.CarrierReleaseStatus = "'HOLD'"
CustomsCond(r) == "CustomReleaseStatus" \notin DOMAIN r \/ r.CustomReleaseStatus # "'RELEASED'"
UsdaCond(r) == "UsdaStatus" \notin DOMAIN r \/ r.UsdaStatus # "'RELEASED'"
YardCond(r) ==
    /\ "YardReleaseStatus" \in DOMAIN r
    /\ r.YardReleaseStatus \notin {None, "''", "'RELEASED'"}
MiscCond(r) == "MiscHoldStatus" \in DOMAIN r /\ r.MiscHoldStatus \notin {None, "''"}
TerminalCond(r) == "IsTerminalHold" \in DOMAIN r /\ r.IsTerminalHold = "True"
AnyHoldCond(r) ==
    \/ CarrierCond(r) \/ CustomsCond(r) \/ UsdaCond(r)
    \/ YardCond(r) \/ MiscCond(r) \/ TerminalCond(r)
AvailableIs2(r) == "Available" \in DOMAIN r /\ r.Available \in {"2", "2.0"}

Label(cond, l) == IF cond THEN <<l>> ELSE <<>>
ExpectedHoldTypes(r) ==
    Label(CarrierCond(r), "Carrier Hold") \o Label(CustomsCond(r), "Customs Hold")
      \o Label(UsdaCond(r), "USDA Hold") \o Label(YardCond(r), "Yard Hold")
      \o Label(MiscCond(r), "Misc Hold: DAMAGE") \o Label(TerminalCond(r), "Terminal Hold")

StripTs(v) == [k \in DOMAIN v \ {"last_updated"} |-> v[k]]

\* C5: under intent 'availability', available_for_pickup is true exactly when
\* Available == 2 and none of the six hold conditions is triggered; the record
\* {Available: 2, Carrier/Custom/Usda status: RELEASED} gives available and
\* available_for_pickup both true.
C5_AvailableForPickup ==
    intent = "availability" =>
        /\ view.available = AvailableIs2(record)
        /\ view.available_for_pickup = (AvailableIs2(record) /\ ~AnyHoldCond(record))
        /\ record = ReleasedPart => (view.available /\ view.available_for_pickup)

C5_Witness ==
    /\ intent = "availability"
    /\ record = ReleasedPart
    /\ view.available_for_pickup

\* a hold suppresses pickup although the raw code says available
C5_WitnessSuppressed ==
    /\ intent = "availability"
    /\ view.available
    /\ ~view.available_for_pickup

\* C6: under intent 'all' the view has exactly the five section keys and each
\* section equals, last_updated aside, the view of the same record under the
\* single intent of that name.
C6_AllEqualsSingle ==
    intent = "all" =>
        /\ DOMAIN view = ValidIntents \ {"all"}
        /\ \A k \in ValidIntents \ {"all"} :
              StripTs(view[k]) = StripTs(_extract_data_by_intent(record, k, <<0>>))

\* C7: hold_types holds one label per triggered condition, none for the others,
\* in the order Carrier, Customs, USDA, Yard, Misc, Terminal; has_holds is true
\* exactly when hold_types is not empty.
C7_HoldTypes ==
    intent = "holds" =>
        /\ view.hold_types = ExpectedHoldTypes(record)
        /\ view.has_holds = (view.hold_types # <<>>)

C7_Witness ==
    /\ intent = "holds"
    /\ "CustomReleaseStatus" \in DOMAIN record /\ record.CustomReleaseStatus = "'PENDING'"
    /\ TerminalCond(record)
    /\ view.hold_types = <<"Customs Hold", "Terminal Hold">>

----------------------------------------------------------------------------
(* ActSpec: one call of scrape_pnct_activity against one upstream answer *)

ContainerIds ==
    {<<>>, <<"M">>, <<"M", "S", "C">>, <<"M", "S", "C", "U">>,
     <<"M", "S", "C", "U", "1", "2", "3", "4", "5", "6", "7">>}

Record1 == ReleasedPart @@ PassThroughPart("set") @@ [Block |-> "'A'", Bay |-> "'12'"]
Record2 == [State |-> "'Departed'"]

Bodies ==
    {JNull, JInvalid, JScalar("5"), JScalar("0"),
     JArr(<<>>), JObj(<<>>), JObj(Record1),
     JArr(<<JObj(Record1)>>), JArr(<<JObj(Record2), JObj(Record1)>>),
     JArr(<<JScalar("5")>>), JArr(<<JNull>>), JArr(<<JObj(<<>>)>>)}

Statuses == {200, 201, 301, 400, 404, 500, 503}
TransportErrors == {"ConnectError", "ConnectTimeout", "ReadTimeout"}

Outcomes ==
    {TransportFailure(e) : e \in TransportErrors}
      \cup {Response(st, b) : st \in Statuses, b \in Bodies}

ActInit ==
    /\ call \in [container_id : ContainerIds, intent : AllIntents, outcome : Outcomes]
    /\ actResult = NoResult
    /\ getCount = 0
    /\ clock = 0
    /\ ProjIdle
    /\ SysIdle
    /\ CallerIdle

RunActivity ==
    /\ clock < MaxClock
    /\ \E ts \in Stamps(clock) :
          LET a == scrape_pnct_activity(call.container_id, call.intent, call.outcome, ts)
          IN /\ actResult' = a.result
             /\ getCount' = getCount + a.gets
    /\ clock' = clock + 1
    /\ UNCHANGED <<call, projVars, sysVars, callerVars>>

ActNext == RunActivity

ActSpec == ActInit /\ [][ActNext]_vars

----------------------------------------------------------------------------
(* Claims about one call of the activity *)

Called == actResult # NoResult
TypedKinds == {"InvalidInput", "NotFound", "UpstreamError", "NetworkError"}

\* C3: for a container id that is empty or shorter than 4 characters the call
\* fails with InvalidInput and issues no GET to the upstream.
C3_InvalidInputBeforeNetwork ==
    (Called /\ Len(call.container_id) < 4) =>
        /\ ~actResult.ok
        /\ ErrorKind(actResult) = "InvalidInput"
        /\ getCount = 0

\* a three-character id, an upstream that would have answered 200 with a record
C3_Witness ==
    /\ Called
    /\ Len(call.container_id) = 3
    /\ call.outcome = Response(200, JObj(Record1))
    /\ ErrorKind(actResult) = "InvalidInput"
    /\ getCount = 0

EmptyOrNullBody(b) == b \in {JNull, JArr(<<>>), JObj(<<>>)}
NonEmptyRecordBody(b) ==
    \/ b.t = "object" /\ DOMAIN b.obj # {}
    \/ b.t = "array" /\ Len(b.items) > 0 /\ b.items[1].t = "object"
         /\ DOMAIN b.items[1].obj # {}

\* the four rows of the mapping, for the outcomes they name
C4_Rows ==
    LET o == call.outcome
    IN /\ o.kind = "transport" =>
              ~actResult.ok /\ ErrorKind(actResult) = "NetworkError"
       /\ (o.kind = "response" /\ o.status = 404) =>
              ~actResult.ok /\ ErrorKind(actResult) = "NotFound"
       /\ (o.kind = "response" /\ o.status # 404 /\ ~(o.status \in 200..299)) =>
              /\ ~actResult.ok /\ ErrorKind(actResult) = "UpstreamError"
              /\ actResult.status = o.status /\ actResult.text = o.body
       /\ (o.kind = "response" /\ o.status \in 200..299 /\ EmptyOrNullBody(o.body)) =>
              ~actResult.ok /\ ErrorKind(actResult) = "NotFound"
       /\ (o.kind = "response" /\ o.status \in 200..299 /\ NonEmptyRecordBody(o.body)) =>
              actResult.ok

\* C4: every outcome of the GET is mapped to one typed result: 404 or an
\* empty/null body to NotFound, another non-2xx status to UpstreamError with
\* status and body in the message, a transport failure to NetworkError, a 2xx
\* answer with a record to a projected view; no outcome is left unmapped.
C4_EveryOutcomeTyped ==
    (Called /\ Len(call.container_id) >= 4) =>
        /\ C4_Rows
        /\ actResult.ok \/ ErrorKind(actResult) \in TypedKinds

\* the rows alone, without the clause that nothing is left unmapped
C4_RowsHold == (Called /\ Len(call.container_id) >= 4) => C4_Rows

----------------------------------------------------------------------------
(* What the requests and the upstream are drawn from in Spec *)

SysIds == {<<"M", "S", "C">>, <<"M", "S", "C", "U", "1", "2", "3", "4", "5", "6", "7">>}
SysIntents == {"status", "bogus"}
SysOutcomes ==
    {Response(200, JArr(<<JObj(Record2)>>)), Response(404, JNull),
     Response(503, JScalar("'Service Unavailable'")), TransportFailure("ConnectError"),
     TransportFailure("ReadTimeout")}

----------------------------------------------------------------------------
(* PNCTScrapeWorkflow.run: one activity under a retry policy *)

maximum_attempts_four == 3 + 1
maximum_attempts_unlimited == 3 - 3
maximum_attempts == 3
initial_interval == 1
backoff_coefficient_one == 2 - 1
backoff_coefficient == 2
maximum_interval == 10
start_to_close_timeout == 60

\* the model stops counting attempts here; the policy stops them earlier
AttemptCap == 4

\* RetryPolicy(non_retryable_error_types=...) is not given: no error type is
\* exempt from retry
non_retryable_error_types_timeout == {"TimeoutError"}
non_retryable_error_types == {}

Min(a, b) == IF a <= b THEN a ELSE b
Last(seq) == seq[Len(seq)]

RECURSIVE Pow(_, _)
Pow(b, n) == IF n = 0 THEN 1 ELSE b * Pow(b, n - 1)

\* the wait after the failure of attempt n
BackoffInterval(n) ==
    Min(initial_interval * Pow(backoff_coefficient, n - 1), maximum_interval)

\* whether the failure of attempt n is followed by another attempt
\* (maximum_attempts = 0 means no limit)
ShouldRetry(n, failure) ==
    /\ maximum_attempts = 0 \/ n < maximum_attempts
    /\ failure.exc \notin non_retryable_error_types

\* the failure recorded for an attempt that ran past start_to_close_timeout
TimeoutFailure == Error("TimeoutError", "activity StartToClose timeout", 0, JNull, "")

Requests == {"r1", "r2"}

NoExecution ==
    [state |-> "None", act |-> "none", attempt |-> 0, inflight |-> NoCall,
     lastFailure |-> NoResult, result |-> NoResult, failure |-> NoResult,
     log |-> <<>>, gets |-> 0, waits |-> <<>>]

NoRequest ==
    [pc |-> "idle", container_id |-> <<>>, intent |-> NoIntent, response |-> NoResult]

Terminal == {"Success", "Failed"}

\* the failure of an attempt reaches the server: retry after a wait, or fail
\* the activity with this failure
AttemptFailed_keep_first(w, e) ==
    LET f == IF w.lastFailure = NoResult THEN e ELSE w.lastFailure
        w1 == [w EXCEPT !.lastFailure = f, !.log = Append(@, ErrorKind(e)),
                        !.inflight = NoCall]
    IN IF ShouldRetry(w.attempt, e)
       THEN [w1 EXCEPT !.act = "backoff",
                       !.waits = Append(@, BackoffInterval(w.attempt))]
       ELSE [w1 EXCEPT !.act = "failed"]

AttemptFailed(w, e) ==
    LET w1 == [w EXCEPT !.lastFailure = e, !.log = Append(@, ErrorKind(e)),
                        !.inflight = NoCall]
    IN IF ShouldRetry(w.attempt, e)
       THEN [w1 EXCEPT !.act = "backoff",
                       !.waits = Append(@, BackoffInterval(w.attempt))]
       ELSE [w1 EXCEPT !.act = "failed"]

\* the time the activity reads in this specification
SysStamps == [i \in 1..6 |-> 0]

\* the first workflow task: run() starts and schedules the activity
WorkflowTaskStartStep(r) ==
    /\ wf[r].state = "Scheduled"
    /\ wf' = [wf EXCEPT ![r].state = "Running", ![r].act = "scheduled",
                         ![r].attempt = 1]

WorkflowTaskStart(r) ==
    /\ WorkflowTaskStartStep(r)
    /\ UNCHANGED <<req, projVars, actVars, clock, timing, callerVars>>

\* a worker starts the attempt: the activity runs up to its GET, if it makes one
ActivityStartStep(r) ==
    /\ wf[r].state = "Running"
    /\ wf[r].act = "scheduled"
    /\ \E o \in SysOutcomes :
          LET a == scrape_pnct_activity(req[r].container_id, req[r].intent, o, SysStamps)
          IN wf' = [wf EXCEPT ![r].act = "running",
                              ![r].inflight = IF a.gets = 0 THEN NoCall ELSE o,
                              ![r].gets = @ + a.gets]

ActivityStart(r) ==
    /\ ActivityStartStep(r)
    /\ UNCHANGED <<req, projVars, actVars, clock, timing, callerVars>>

\* the attempt ends: the activity returns or raises (an activity that made no
\* GET raises whatever the upstream would have answered)
ActivityFinishStep(r) ==
    /\ wf[r].state = "Running"
    /\ wf[r].act = "running"
    /\ LET o == IF wf[r].inflight = NoCall THEN Response(200, JNull) ELSE wf[r].inflight
           a == scrape_pnct_activity(req[r].container_id, req[r].intent, o, SysStamps)
       IN wf' = [wf EXCEPT ![r] =
                    IF a.result.ok
                    THEN [@ EXCEPT !.act = "completed", !.result = a.result.value,
                                   !.log = Append(@, "ok"), !.inflight = NoCall]
                    ELSE AttemptFailed(@, a.result)]

ActivityFinish(r) ==
    /\ ActivityFinishStep(r)
    /\ UNCHANGED <<req, projVars, actVars, clock, timing, callerVars>>

\* the GET is still pending when start_to_close_timeout expires
ActivityTimeoutStep(r) ==
    /\ wf[r].state = "Running"
    /\ wf[r].act = "running"
    /\ wf[r].inflight # NoCall
    /\ wf' = [wf EXCEPT ![r] = AttemptFailed(@, TimeoutFailure)]

ActivityTimeout(r) ==
    /\ ActivityTimeoutStep(r)
    /\ UNCHANGED <<req, projVars, actVars, clock, timing, callerVars>>

\* the retry wait is over: the next attempt is scheduled
BackoffElapsedStep(r) ==
    /\ wf[r].state = "Running"
    /\ wf[r].act = "backoff"
    /\ wf[r].attempt < AttemptCap
    /\ wf' = [wf EXCEPT ![r].act = "scheduled", ![r].attempt = @ + 1]

BackoffElapsed(r) ==
    /\ BackoffElapsedStep(r)
    /\ UNCHANGED <<req, projVars, actVars, clock, timing, callerVars>>

\* what run() returns from the value execute_activity gave it
WorkflowReturn_data_only(result) == [data |-> result.data]

WorkflowReturn(result) == result

\* execute_activity returns or raises in run(): the workflow completes with the
\* activity's result or fails with an ActivityError caused by its last failure
WorkflowTaskCompleteStep(r) ==
    /\ wf[r].state = "Running"
    /\ wf[r].act \in {"completed", "failed"}
    /\ wf' = [wf EXCEPT ![r] =
                 IF @.act = "completed"
                 THEN [@ EXCEPT !.state = "Success",
                                !.result = WorkflowReturn(wf[r].result)]
                 ELSE [@ EXCEPT !.state = "Failed",
                                !.failure = [exc |-> "ActivityError",
                                             cause |-> wf[r].lastFailure]]]

WorkflowTaskComplete(r) ==
    /\ WorkflowTaskCompleteStep(r)
    /\ UNCHANGED <<req, projVars, actVars, clock, timing, callerVars>>

----------------------------------------------------------------------------
(* POST /scrape *)

WorkflowId(container_id, int) == <<"pnct-scrape", container_id, int>>

\* the ids of the workflow executions that are open on the server
OpenIds ==
    {WorkflowId(req[r].container_id, req[r].intent) :
        r \in {x \in Requests : wf[x].state \in {"Scheduled", "Running"}}}

HttpError(status, detail) == [status |-> status, detail |-> detail]
HttpOk(body) == [status |-> 200, body |-> body]

\* str(e) of the exceptions the handler can catch
ConnectFailed == "Failed client connect"
AlreadyStarted == "Workflow execution already started"
WorkflowFailed == "Workflow execution failed"

\* "Connection" in str(e) or "connect" in str(e).lower()
MentionsConnect(msg) == msg = ConnectFailed

\* the except branch of scrape()
ScrapeError(msg) ==
    IF MentionsConnect(msg)
    THEN HttpError(503, "Cannot connect to Temporal server")
    ELSE HttpError(500, <<"Error executing workflow: ", msg>>)

\* ScrapeRequest: container_id has min_length=1, intent is one of the six
ScrapeRequestValid_any_intent(container_id, int) == Len(container_id) >= 1

ScrapeRequestValid(container_id, int) ==
    Len(container_id) >= 1 /\ int \in ValidIntents

\* what scrape() answers once handle.result() returned or raised, for a
\* workflow that ended in w.state with w.result
ScrapeResponse(container_id, int, w) ==
    IF w.state = "Success"
    THEN HttpOk([container_id |-> container_id, intent |-> int,
                 data |-> w.result.data,
                 workflow_id |-> WorkflowId(container_id, int)])
    ELSE ScrapeError(WorkflowFailed)

\* a request arrives: validation, Client.connect, start_workflow
ScrapeStep(r) ==
    /\ req[r].pc = "idle"
    /\ \E cid \in SysIds, int \in SysIntents, connected \in BOOLEAN :
          LET done(resp) == [pc |-> "done", container_id |-> cid, intent |-> int,
                             response |-> resp]
          IN IF ~ScrapeRequestValid(cid, int)
             THEN /\ req' = [req EXCEPT ![r] = done(HttpError(422, "validation error"))]
                  /\ UNCHANGED wf
             ELSE IF ~connected
             THEN /\ req' = [req EXCEPT ![r] = done(ScrapeError(ConnectFailed))]
                  /\ UNCHANGED wf
             ELSE IF WorkflowId(cid, int) \in OpenIds
             THEN /\ req' = [req EXCEPT ![r] = done(ScrapeError(AlreadyStarted))]
                  /\ UNCHANGED wf
             ELSE /\ req' = [req EXCEPT ![r] =
                               [pc |-> "waiting", container_id |-> cid, intent |-> int,
                                response |-> NoResult]]
                  /\ wf' = [wf EXCEPT ![r] = [NoExecution EXCEPT !.state = "Scheduled"]]

Scrape(r) ==
    /\ ScrapeStep(r)
    /\ UNCHANGED <<projVars, actVars, clock, timing, callerVars>>

\* handle.result() returns or raises: the response is built
ScrapeReturnStep(r) ==
    /\ req[r].pc = "waiting"
    /\ wf[r].state \in Terminal
    /\ req' = [req EXCEPT ![r].pc = "done",
                           ![r].response =
                               ScrapeResponse(req[r].container_id, req[r].intent,
                                              wf[r])]

ScrapeReturn(r) ==
    /\ ScrapeReturnStep(r)
    /\ UNCHANGED <<wf, projVars, actVars, clock, timing, callerVars>>

Init ==
    /\ req = [r \in Requests |-> NoRequest]
    /\ wf = [r \in Requests |-> NoExecution]
    /\ timing = <<>>
    /\ clock = 0
    /\ ProjIdle
    /\ ActIdle
    /\ CallerIdle

Next ==
    \E r \in Requests :
        \/ Scrape(r)
        \/ WorkflowTaskStart(r)
        \/ ActivityStart(r)
        \/ ActivityFinish(r)
        \/ ActivityTimeout(r)
        \/ BackoffElapsed(r)
        \/ WorkflowTaskComplete(r)
        \/ ScrapeReturn(r)

Spec == Init /\ [][Next]_vars

----------------------------------------------------------------------------
(* One invocation with time: when its attempts start and end *)

\* httpx.AsyncClient(timeout=30.0): the GET gives up after this wait
HttpTimeout == 30

\* how long a GET that is answered takes, and how long a started task waits
\* for a worker
AnswerTimes == {1, 45}
Latencies == {0, 1}

NoTiming ==
    [now |-> 0, starts |-> <<>>, ends |-> <<>>, outs |-> <<>>,
     toolReply |-> NoResult, agentResult |-> NoResult]

TimedInit ==
    /\ req = [r \in Requests |-> NoRequest]
    /\ wf = [r \in Requests |-> NoExecution]
    /\ timing = NoTiming
    /\ clock = 0
    /\ ProjIdle
    /\ ActIdle
    /\ CallerIdle

TimedScrape(r) ==
    /\ ScrapeStep(r)
    /\ UNCHANGED <<projVars, actVars, clock, timing, callerVars>>

TimedWorkflowTaskStart(r) ==
    /\ WorkflowTaskStartStep(r)
    /\ UNCHANGED <<req, projVars, actVars, clock, timing, callerVars>>

\* a worker picks the attempt up
TimedActivityStart(r) ==
    /\ ActivityStartStep(r)
    /\ \E lat \in Latencies :
          timing' = [timing EXCEPT !.now = @ + lat,
                                   !.starts = Append(@, timing.now + lat),
                                   !.outs = Append(@, wf'[r].inflight)]
    /\ UNCHANGED <<req, projVars, actVars, clock, callerVars>>

\* the attempt returns or raises before start_to_close_timeout: at once when
\* it made no GET, after HttpTimeout when the GET timed out, otherwise when the
\* answer is in
TimedActivityFinish(r) ==
    /\ ActivityFinishStep(r)
    /\ \E d \in (IF wf[r].inflight = NoCall THEN {0}
                  ELSE IF wf[r].inflight = TransportFailure("ReadTimeout")
                  THEN {HttpTimeout}
                  ELSE AnswerTimes) :
          /\ d < start_to_close_timeout
          /\ timing' = [timing EXCEPT !.now = Last(timing.starts) + d,
                                      !.ends = Append(@, Last(timing.starts) + d)]
    /\ UNCHANGED <<req, projVars, actVars, clock, callerVars>>

\* the server times the attempt out
TimedActivityTimeout(r) ==
    /\ ActivityTimeoutStep(r)
    /\ timing' = [timing EXCEPT
                     !.now = Last(timing.starts) + start_to_close_timeout,
                     !.ends = Append(@, Last(timing.starts) + start_to_close_timeout)]
    /\ UNCHANGED <<req, projVars, actVars, clock, callerVars>>

\* the retry timer of the server fires
TimedBackoffElapsed(r) ==
    /\ BackoffElapsedStep(r)
    /\ timing' = [timing EXCEPT !.now = Last(timing.ends) + Last(wf[r].waits)]
    /\ UNCHANGED <<req, projVars, actVars, clock, callerVars>>

TimedWorkflowTaskComplete(r) ==
    /\ WorkflowTaskCompleteStep(r)
    /\ UNCHANGED <<req, projVars, actVars, clock, timing, callerVars>>

TimedRequest == "r1"

TimedNext ==
    \/ TimedScrape(TimedRequest)
    \/ TimedWorkflowTaskStart(TimedRequest)
    \/ TimedActivityStart(TimedRequest)
    \/ TimedActivityFinish(TimedRequest)
    \/ TimedActivityTimeout(TimedRequest)
    \/ TimedBackoffElapsed(TimedRequest)
    \/ TimedWorkflowTaskComplete(TimedRequest)

TimedSpec == TimedInit /\ [][TimedNext]_vars

\* the server and the worker keep running: a scheduled task is picked up, a
\* started attempt ends or times out, a retry wait ends, a waiting handler
\* resumes
Fairness ==
    \A r \in Requests :
        /\ WF_vars(WorkflowTaskStart(r))
        /\ WF_vars(ActivityStart(r))
        /\ WF_vars(ActivityFinish(r) \/ ActivityTimeout(r))
        /\ WF_vars(BackoffElapsed(r))
        /\ WF_vars(WorkflowTaskComplete(r))
        /\ WF_vars(ScrapeReturn(r))

LiveSpec == Init /\ [][Next]_vars /\ Fairness

----------------------------------------------------------------------------
(* Claims about the workflow and POST /scrape *)

Started(r) == wf[r].state # "None"
AlreadyStartedResponse == HttpError(500, <<"Error executing workflow: ", AlreadyStarted>>)

\* C1: an invocation makes at most 3 attempts and at most 3 upstream GETs;
\* after three 503 answers the activity has failed for good (no further
\* attempt is scheduled, no fourth GET is issued) and the workflow ends Failed.
C1_AtMostThreeAttempts ==
    \A r \in Requests :
        /\ wf[r].attempt <= 3
        /\ wf[r].gets <= 3
        /\ Len(wf[r].log) <= 3
        /\ wf[r].log = <<"UpstreamError", "UpstreamError", "UpstreamError">> =>
              /\ wf[r].act = "failed"
              /\ wf[r].gets = 3
              /\ wf[r].state \in {"Running", "Failed"}
              /\ req[r].pc = "done" => req[r].response.status # 200

C1_Witness ==
    \E r \in Requests :
        /\ wf[r].log = <<"UpstreamError", "UpstreamError", "UpstreamError">>
        /\ wf[r].state = "Failed"
        /\ wf[r].gets = 3

\* C2: an attempt that fails with InvalidInput or NotFound is the only
\* attempt of its invocation; only an UpstreamError or NetworkError failure
\* (a timeout counted with them) is followed by another attempt.
C2_NoRetryOfTerminalKinds ==
    \A r \in Requests :
        \A i \in 1..Len(wf[r].log) :
            /\ wf[r].log[i] \in {"InvalidInput", "NotFound"} =>
                  (i = 1 /\ Len(wf[r].log) = 1 /\ wf[r].act = "failed")
            /\ i < Len(wf[r].log) =>
                  wf[r].log[i] \in {"UpstreamError", "NetworkError", "Timeout"}

\* C8: of two requests for the same (container_id, intent) in flight together
\* neither fails because of the other: no request is answered with the error
\* of starting a workflow whose id is already open.
C8_ConcurrentIndependent ==
    \A r \in Requests :
        req[r].pc = "done" => req[r].response # AlreadyStartedResponse

\* C9: an invocation moves Scheduled -> Running -> Success or Failed and no
\* other way; once terminal, it starts no attempt and its outcome does not
\* change; and every invocation started eventually is terminal.
C9_Step(r) ==
    /\ \/ wf[r].state' = wf[r].state
       \/ wf[r].state = "None" /\ wf[r].state' = "Scheduled"
       \/ wf[r].state = "Scheduled" /\ wf[r].state' = "Running"
       \/ wf[r].state = "Running" /\ wf[r].state' \in Terminal
    /\ wf[r].state \in Terminal => wf[r]' = wf[r]

C9_Lifecycle ==
    /\ [][\A r \in Requests : C9_Step(r)]_vars
    /\ \A r \in Requests : (Started(r) ~> wf[r].state \in Terminal)

C9_Witness ==
    \E r \in Requests :
        /\ wf[r].state = "Failed"
        /\ wf[r].attempt = 3
        /\ req[r].pc = "done"

----------------------------------------------------------------------------
(* Claims about the timing of the attempts *)

\* 1 s, 2 s, 4 s, 8 s, then 10 s
WaitAfter(n) == CASE n = 1 -> 1 [] n = 2 -> 2 [] n = 3 -> 4 [] n = 4 -> 8 [] OTHER -> 10

\* C12: the attempts of an invocation do not overlap: attempt n+1 starts only
\* after attempt n has ended in failure and the wait min(2^(n-1), 10) seconds
\* after that end is over: 1 s before the second attempt, 2 s before the third;
\* no wait is longer than 10 s.
C12_SequentialBackoff ==
    LET S == timing.starts
        E == timing.ends
        w == wf[TimedRequest]
    IN /\ Len(E) <= Len(S) /\ Len(S) <= Len(E) + 1
       /\ w.act = "running" <=> Len(S) = Len(E) + 1
       /\ \A n \in 1..Len(E) : S[n] <= E[n]
       /\ \A n \in 2..Len(S) :
             /\ w.log[n - 1] # "ok"
             /\ S[n] >= E[n - 1] + WaitAfter(n - 1)
       /\ Len(S) >= 2 => S[2] >= E[1] + 1
       /\ Len(S) >= 3 => S[3] >= E[2] + 2
       /\ \A i \in 1..Len(w.waits) : w.waits[i] = WaitAfter(i) /\ w.waits[i] <= 10
       /\ \A n \in 1..6 : BackoffInterval(n) = WaitAfter(n)

\* three attempts, each next one started as early as the policy lets it
C12_Witness ==
    /\ Len(timing.starts) = 3
    /\ timing.starts[2] = timing.ends[1] + 1
    /\ timing.starts[3] = timing.ends[2] + 2
    /\ wf[TimedRequest].state = "Failed"

\* attempt n ran into the HTTP timeout of its GET, or into the
\* start_to_close_timeout of the workflow
HttpTimedOut(n) ==
    /\ timing.outs[n] = TransportFailure("ReadTimeout")
    /\ timing.ends[n] - timing.starts[n] = 30
StartToCloseTimedOut(n) == timing.ends[n] - timing.starts[n] = 60

\* C13: an attempt that exceeds its time limit (30 s for the GET, 60 s from
\* start to close) has failed, as a NetworkError or as a timeout: it is one of
\* the at most 3 attempts, and another attempt follows it unless it was the
\* third.
C13_TimeoutIsRetryableFailure ==
    LET w == wf[TimedRequest]
    IN \A n \in 1..Len(timing.ends) :
          /\ HttpTimedOut(n) => w.log[n] = "NetworkError"
          /\ StartToCloseTimedOut(n) => w.log[n] = "Timeout"
          /\ w.log[n] = "Timeout" => StartToCloseTimedOut(n)
          /\ (HttpTimedOut(n) \/ StartToCloseTimedOut(n)) =>
                /\ n <= 3
                /\ w.state # "Success" \/ n < Len(w.log)
                /\ n < 3 => \/ w.act = "backoff" /\ w.attempt = n
                            \/ w.attempt > n
                /\ n = 3 => w.act = "failed" /\ w.attempt = 3

\* a start-to-close timeout, then an HTTP timeout, then a start-to-close
\* timeout: the budget is spent
C13_Witness ==
    /\ Len(timing.ends) = 3
    /\ StartToCloseTimedOut(1)
    /\ HttpTimedOut(2)
    /\ StartToCloseTimedOut(3)
    /\ wf[TimedRequest].log = <<"Timeout", "NetworkError", "Timeout">>
    /\ wf[TimedRequest].state = "Failed"

----------------------------------------------------------------------------
(* The callers of POST /scrape: the tool server (mcp_tools/http_server) and *)
(* ContainerAgent.call_mcp_tool.  The workflow is taken by its outcome.     *)

\* httpx exceptions by the class the handlers catch them as
TimeoutExceptions == {"ConnectTimeout", "ReadTimeout", "WriteTimeout", "PoolTimeout"}
ConnectErrors == {"ConnectError"}
NetworkErrors == ConnectErrors \cup {"ReadError", "WriteError", "CloseError"}

\* QueryContainerRequest: container_id has min_length=1, intent is one of the six
QueryContainerRequestValid_any_intent(container_id, int) == Len(container_id) >= 1

QueryContainerRequestValid(container_id, int) ==
    Len(container_id) >= 1 /\ int \in ValidIntents

\* the try block of tool_query_container after client.post: it returns the
\* body, raises an HTTPException, or lets the exception of client.post pass
ToolTry(post) ==
    IF "kind" \in DOMAIN post
    THEN [raised |-> post.err]
    ELSE CASE post.status = 200 -> [returned |-> HttpOk(post.body)]
           [] post.status = 404 ->
                  [raised |-> "HTTPException",
                   http |-> HttpError(404, "Container not found")]
           [] post.status = 500 ->
                  [raised |-> "HTTPException",
                   http |-> HttpError(500, "PNCT Scraper API error")]
           [] OTHER ->
                  [raised |-> "HTTPException",
                   http |-> HttpError(500, "Unexpected error from scraper API")]

\* the except clauses without "except HTTPException: raise"
ToolExcept_without_reraise(t) ==
    CASE t.raised \in TimeoutExceptions ->
             HttpError(504, "Timeout waiting for PNCT Scraper API response")
      [] t.raised \in ConnectErrors ->
             HttpError(503, "Cannot connect to PNCT Scraper API")
      [] t.raised \in NetworkErrors \ ConnectErrors ->
             HttpError(503, "Network error")
      [] OTHER -> HttpError(500, "Unexpected error")

\* the except clauses, in their order: what the client is answered
ToolExcept(t) ==
    CASE t.raised \in TimeoutExceptions ->
             HttpError(504, "Timeout waiting for PNCT Scraper API response")
      [] t.raised \in ConnectErrors ->
             HttpError(503, "Cannot connect to PNCT Scraper API")
      [] t.raised \in NetworkErrors \ ConnectErrors ->
             HttpError(503, "Network error")
      [] t.raised = "HTTPException" -> t.http
      [] OTHER -> HttpError(500, "Unexpected error")

\* tool_query_container after client.post: post is the answer of POST /scrape
\* or the exception client.post raised
tool_query_container(post) ==
    LET t == ToolTry(post)
    IN IF "returned" \in DOMAIN t THEN t.returned ELSE ToolExcept(t)

ToolError(error) == [error |-> error]

\* ContainerAgent.call_mcp_tool after http_client.post: post is the answer of
\* POST /tools/query_container or the exception the post raised
call_mcp_tool(post) ==
    IF "kind" \in DOMAIN post
    THEN IF post.err \in TimeoutExceptions \cup NetworkErrors
         THEN ToolError("NETWORK_ERROR")
         ELSE ToolError("UNKNOWN_ERROR")
    ELSE CASE IsSuccess(post.status) -> post.body
           [] post.status = 404 -> ToolError("CONTAINER_NOT_FOUND")
           [] post.status = 500 -> ToolError("SERVER_ERROR")
           [] OTHER -> ToolError("API_ERROR")

\* the workflow by its end: the activity's value, or a failure caused by the
\* failure of the last attempt, which met upstream outcome o
CoreRun(container_id, int, o) ==
    LET a == scrape_pnct_activity(container_id, int, o, SysStamps).result
    IN IF a.ok
       THEN [state |-> "Success", result |-> WorkflowReturn(a.value), cause |-> NoResult]
       ELSE [state |-> "Failed", result |-> NoResult, cause |-> a]

ToolIds == SysIds \cup {<<>>}
ChainOutcomes ==
    SysOutcomes \cup {Response(200, JNull), Response(200, JArr(<<>>)),
                      Response(500, JScalar("'Internal Server Error'"))}
PostFailures == {"ReadTimeout", "ReadError", "RemoteProtocolError"}

NoTool ==
    [entry |-> "none", container_id |-> <<>>, intent |-> NoIntent,
     forwards |-> 0, starts |-> 0, coreIntents |-> {}, upstream |-> NoCall,
     scrapePc |-> "none", scrapeResp |-> NoResult,
     toolPc |-> "none", toolHow |-> "none", toolErr |-> "none",
     toolResp |-> NoResult,
     agentPc |-> "none", agentHow |-> "none", agentResult |-> NoResult]

ToolInit ==
    /\ tool = NoTool
    /\ agent = <<>>
    /\ clock = 0
    /\ ProjIdle
    /\ ActIdle
    /\ SysIdle

ToolRest == <<projVars, actVars, sysVars, clock, agent>>

\* call_mcp_tool posts to POST /tools/query_container
CallMcpTool ==
    /\ tool.entry = "none"
    /\ \E cid \in ToolIds, int \in AllIntents, reached \in BOOLEAN :
          tool' = IF reached
                  THEN [tool EXCEPT !.entry = "tool", !.container_id = cid,
                                    !.intent = int, !.agentPc = "waiting",
                                    !.toolPc = "received"]
                  ELSE [tool EXCEPT !.entry = "tool", !.container_id = cid,
                                    !.intent = int, !.agentPc = "done",
                                    !.agentHow = "gaveup",
                                    !.agentResult =
                                        call_mcp_tool(TransportFailure("ConnectError"))]
    /\ UNCHANGED ToolRest

\* a client posts to POST /scrape itself
ScrapeDirect ==
    /\ tool.entry = "none"
    /\ \E cid \in ToolIds, int \in AllIntents :
          tool' = [tool EXCEPT !.entry = "scrape", !.container_id = cid,
                               !.intent = int, !.scrapePc = "pending"]
    /\ UNCHANGED ToolRest

\* tool_query_container: the request is validated, then posted to POST /scrape
ToolReceive ==
    /\ tool.toolPc = "received"
    /\ \E reached \in BOOLEAN :
          tool' =
            IF ~QueryContainerRequestValid(tool.container_id, tool.intent)
            THEN [tool EXCEPT !.toolPc = "done", !.toolHow = "rejected",
                              !.toolResp = HttpError(422, "validation error")]
            ELSE IF ~reached
            THEN [tool EXCEPT !.toolPc = "done", !.toolHow = "gaveup",
                              !.toolErr = "ConnectError",
                              !.toolResp =
                                  tool_query_container(TransportFailure("ConnectError"))]
            ELSE [tool EXCEPT !.toolPc = "waiting", !.forwards = @ + 1,
                              !.scrapePc = "pending"]
    /\ UNCHANGED ToolRest

\* scrape(): validation, Client.connect, start_workflow, handle.result()
ScrapeHandle ==
    /\ tool.scrapePc = "pending"
    /\ \E connected \in BOOLEAN, open \in BOOLEAN, o \in ChainOutcomes :
          LET cid == tool.container_id
              int == tool.intent
              answer(resp) == [tool EXCEPT !.scrapePc = "done", !.scrapeResp = resp]
          IN tool' =
               IF ~ScrapeRequestValid(cid, int)
               THEN answer(HttpError(422, "validation error"))
               ELSE IF ~connected
               THEN answer(ScrapeError(ConnectFailed))
               ELSE IF open
               THEN answer(ScrapeError(AlreadyStarted))
               ELSE [answer(ScrapeResponse(cid, int, CoreRun(cid, int, o)))
                        EXCEPT !.starts = @ + 1,
                               !.coreIntents = @ \cup {int},
                               !.upstream = o]
    /\ UNCHANGED ToolRest

\* what listens at PNCT_SCRAPER_API_URL answers the forwarded request by
\* itself (a gateway in front of the scraper API, another service)
GatewayAnswers == {HttpError(404, "Not Found"), HttpError(502, "Bad Gateway")}

DownstreamAnswers ==
    /\ tool.scrapePc = "pending"
    /\ tool.entry = "tool"
    /\ \E resp \in GatewayAnswers :
          tool' = [tool EXCEPT !.scrapePc = "done", !.scrapeResp = resp]
    /\ UNCHANGED ToolRest

\* tool_query_container: POST /scrape has answered
ToolReturn ==
    /\ tool.toolPc = "waiting"
    /\ tool.scrapePc = "done"
    /\ tool' = [tool EXCEPT !.toolPc = "done", !.toolHow = "mapped",
                             !.toolResp = tool_query_container(tool.scrapeResp)]
    /\ UNCHANGED ToolRest

\* tool_query_container: client.post raises (60 s without an answer, a broken
\* connection)
ToolGiveUp ==
    /\ tool.toolPc = "waiting"
    /\ \E e \in PostFailures :
          tool' = [tool EXCEPT !.toolPc = "done", !.toolHow = "gaveup",
                               !.toolErr = e,
                               !.toolResp = tool_query_container(TransportFailure(e))]
    /\ UNCHANGED ToolRest

\* call_mcp_tool: the tool server has answered
AgentReturn ==
    /\ tool.agentPc = "waiting"
    /\ tool.toolPc = "done"
    /\ tool' = [tool EXCEPT !.agentPc = "done", !.agentHow = "mapped",
                             !.agentResult = call_mcp_tool(tool.toolResp)]
    /\ UNCHANGED ToolRest

\* call_mcp_tool: http_client.post raises (30 s without an answer, a broken
\* connection)
AgentGiveUp ==
    /\ tool.agentPc = "waiting"
    /\ \E e \in PostFailures :
          tool' = [tool EXCEPT !.agentPc = "done", !.agentHow = "gaveup",
                               !.agentResult = call_mcp_tool(TransportFailure(e))]
    /\ UNCHANGED ToolRest

ToolNext ==
    \/ CallMcpTool
    \/ ScrapeDirect
    \/ ToolReceive
    \/ ScrapeHandle
    \/ DownstreamAnswers
    \/ ToolReturn
    \/ ToolGiveUp
    \/ AgentReturn
    \/ AgentGiveUp

ToolSpec == ToolInit /\ [][ToolNext]_vars

----------------------------------------------------------------------------
(* Claims about the callers *)

\* the upstream reports no match / fails for now
NoMatch(o) ==
    /\ o.kind = "response"
    /\ \/ o.status = 404
       \/ IsSuccess(o.status) /\ o.body \in {JNull, JArr(<<>>)}
Transient(o) == o.kind = "transport" \/ (o.kind = "response" /\ o.status >= 500)

\* the workflow ran and its activity asked the upstream
AskedUpstream == tool.upstream # NoCall /\ Len(tool.container_id) >= 4

\* C14: "container not found" reaches the caller as such: when the upstream
\* reports no match, POST /scrape answers 404, POST /tools/query_container
\* answers 404 and call_mcp_tool returns CONTAINER_NOT_FOUND; an upstream 5xx
\* or a network failure surfaces with another error code.
C14_NotFoundDistinguishable ==
    AskedUpstream =>
        /\ NoMatch(tool.upstream) =>
              /\ tool.scrapePc = "done" => tool.scrapeResp.status = 404
              /\ tool.toolHow = "mapped" => tool.toolResp.status = 404
              /\ (tool.toolHow = "mapped" /\ tool.agentHow = "mapped") =>
                    tool.agentResult = ToolError("CONTAINER_NOT_FOUND")
        /\ Transient(tool.upstream) =>
              /\ tool.scrapePc = "done" => tool.scrapeResp.status \notin {200, 404}
              /\ tool.toolHow = "mapped" => tool.toolResp.status \notin {200, 404}
              /\ (tool.toolHow = "mapped" /\ tool.agentHow = "mapped") =>
                    tool.agentResult \in {ToolError("SERVER_ERROR"),
                                          ToolError("API_ERROR"),
                                          ToolError("NETWORK_ERROR")}

\* the half of C14 about transient failures alone
C14_TransientHalf ==
    (AskedUpstream /\ Transient(tool.upstream) /\ tool.toolHow = "mapped"
        /\ tool.agentHow = "mapped") =>
            tool.agentResult = ToolError("SERVER_ERROR")

\* what the caller is told after no match and after a transient failure is
\* the same
C14_SameAnswer ==
    (AskedUpstream /\ tool.toolHow = "mapped" /\ tool.agentHow = "mapped"
        /\ (NoMatch(tool.upstream) \/ Transient(tool.upstream))) =>
            /\ tool.scrapeResp = ScrapeError(WorkflowFailed)
            /\ tool.agentResult = ToolError("SERVER_ERROR")

\* C15: a request whose intent is not one of the six is rejected by the layer
\* it enters through: the tool server forwards nothing to POST /scrape, POST
\* /scrape starts no workflow, and the activity only ever runs with one of
\* the six intents.
C15_InvalidIntentRejected ==
    /\ tool.coreIntents \subseteq
          {"status", "location", "availability", "holds", "last_free_day", "all"}
    /\ tool.starts > 0 => tool.intent \in tool.coreIntents
    /\ (tool.entry # "none" /\ tool.intent \notin
            {"status", "location", "availability", "holds", "last_free_day", "all"}) =>
          /\ tool.forwards = 0
          /\ tool.starts = 0
          /\ tool.upstream = NoCall
          /\ tool.entry = "tool" => tool.scrapePc = "none"
          /\ tool.toolPc = "done" => tool.toolResp = HttpError(422, "validation error")
          /\ tool.scrapePc = "done" => tool.scrapeResp = HttpError(422, "validation error")

\* an unknown intent was turned away by the tool server and the agent was told
C15_Witness ==
    /\ tool.entry = "tool"
    /\ tool.intent = "bogus"
    /\ Len(tool.container_id) = 11
    /\ tool.toolHow = "rejected"
    /\ tool.agentHow = "mapped"
    /\ tool.agentResult = ToolError("API_ERROR")

\* the same at POST /scrape
C15_WitnessScrape ==
    /\ tool.entry = "scrape"
    /\ tool.intent = "bogus"
    /\ tool.scrapePc = "done"

----------------------------------------------------------------------------
(* Claims about the shape of the views *)

SingleIntents == {"status", "location", "availability", "holds", "last_free_day"}

\* the fields of each single view, last_updated aside
FieldSet(i) ==
    CASE i = "status" ->
           {"status", "container_state", "location", "available",
            "availability_display_status"}
      [] i = "location" ->
           {"location", "yard_name", "block", "bay", "position", "state",
            "container_state", "coordinates"}
      [] i = "availability" ->
           {"available", "availability_display_status", "available_for_pickup",
            "order_of_accessibility"}
      [] i = "holds" ->
           {"has_holds", "hold_types", "carrier_release_status",
            "custom_release_status", "usda_status", "yard_release_status",
            "misc_hold_status", "misc_hold_detail", "is_terminal_hold",
            "carrier_hold"}
      [] i = "last_free_day" ->
           {"last_free_date", "line_last_free_date", "free_days", "first_free_date",
            "demurrage_due_flag", "demurrage_amount", "line_demurrage_amount",
            "is_on_demurrage_warning"}

\* C16: for every raw record and every single intent the keys of the view are
\* among the fields of that intent plus last_updated; under 'all' the
\* top-level keys are exactly status, location, availability, holds and
\* last_free_day.
C16_NoLeakage ==
    /\ intent \in SingleIntents =>
          /\ DOMAIN view \subseteq FieldSet(intent) \cup {"last_updated"}
          /\ "last_updated" \in DOMAIN view
    /\ intent = "all" =>
          /\ DOMAIN view = SingleIntents
          /\ \A i \in SingleIntents :
                DOMAIN view[i] \subseteq FieldSet(i) \cup {"last_updated"}

\* a status view of a record that holds the raw fields of every other view
C16_Witness ==
    /\ intent = "status"
    /\ {"YardName", "CarrierReleaseStatus", "OrderOfAccessibility", "FreeDays"}
          \subseteq DOMAIN record
    /\ DOMAIN view = FieldSet("status") \cup {"last_updated"}

\* what the table of defaults gives for a record without any field
DefaultStatus ==
    [status |-> "'Unknown'", container_state |-> "'Unknown'", location |-> "'Unknown'",
     available |-> FALSE, availability_display_status |-> "'Unknown'"]
DefaultLocation ==
    [location |-> "'Unknown'", yard_name |-> None, block |-> None, bay |-> None,
     position |-> None, state |-> "'Unknown'", container_state |-> "'Unknown'"]
DefaultAvailability ==
    [available |-> FALSE, availability_display_status |-> "'No'",
     available_for_pickup |-> FALSE, order_of_accessibility |-> None]
DefaultHolds ==
    [has_holds |-> TRUE, hold_types |-> <<"Customs Hold", "USDA Hold">>,
     carrier_release_status |-> None, custom_release_status |-> None,
     usda_status |-> None, yard_release_status |-> None, misc_hold_status |-> None,
     misc_hold_detail |-> None, is_terminal_hold |-> "False", carrier_hold |-> "0"]
DefaultLastFreeDay ==
    [last_free_date |-> None, line_last_free_date |-> None, free_days |-> "'0'",
     first_free_date |-> None, demurrage_due_flag |-> None,
     demurrage_amount |-> "0.0", line_demurrage_amount |-> "0.0",
     is_on_demurrage_warning |-> "False"]
DefaultView(i) ==
    CASE i = "status" -> DefaultStatus
      [] i = "location" -> DefaultLocation
      [] i = "availability" -> DefaultAvailability
      [] i = "holds" -> DefaultHolds
      [] i = "last_free_day" -> DefaultLastFreeDay

\* C17: projecting the empty record {} gives, for each of the six intents, a
\* view (never a failure) that holds the tabulated defaults: status 'Unknown',
\* available false, availability_display_status 'No' under availability,
\* carrier_hold 0, free_days '0', demurrage amounts 0.0,
\* is_on_demurrage_warning false.
C17_EmptyRecordDefaults ==
    (DOMAIN record = {} /\ intent \in ValidIntents) =>
        /\ view # NoView
        /\ intent \in SingleIntents =>
              /\ StripTs(view) = DefaultView(intent)
              /\ "last_updated" \in DOMAIN view
        /\ intent = "all" =>
              /\ DOMAIN view = SingleIntents
              /\ \A i \in SingleIntents : StripTs(view[i]) = DefaultView(i)

\* the empty record was projected under 'all'
C17_Witness ==
    /\ DOMAIN record = {}
    /\ intent = "all"
    /\ view.holds.carrier_hold = "0"
    /\ view.last_free_day.free_days = "'0'"
    /\ view.availability.availability_display_status = "'No'"

\* and under a single intent
C17_WitnessSingle ==
    DOMAIN record = {} /\ intent = "last_free_day" /\ view.demurrage_amount = "0.0"

----------------------------------------------------------------------------
(* Claims about the body of a 2xx answer *)

\* the record a 2xx body holds: its first element, or itself
FirstIsRecord(b) ==
    b.t = "array" /\ Len(b.items) > 0 /\ b.items[1].t = "object"
        /\ DOMAIN b.items[1].obj # {}
IsRecord(b) == b.t = "object" /\ DOMAIN b.obj # {}
\* null, the empty array, a scalar, an array whose first element is not an object
OtherBody(b) ==
    \/ b.t \in {"null", "scalar"}
    \/ b.t = "array" /\ Len(b.items) = 0
    \/ b.t = "array" /\ Len(b.items) > 0 /\ b.items[1].t # "object"

ProjectionOf(rec) ==
    /\ actResult.ok
    /\ \E ts \in Stamps(0) :
          actResult.value.data = _extract_data_by_intent(rec, call.intent, ts)

Answered2xx ==
    /\ Called
    /\ Len(call.container_id) >= 4
    /\ call.outcome.kind = "response"
    /\ IsSuccess(call.outcome.status)

\* C18: for a 2xx answer the record projected is the first element of an
\* array body and an object body itself; every other body (null, the empty
\* array, a scalar, an array whose first element is not an object) gives
\* NotFound, never another failure kind and never a projection.
C18_BodyShapes ==
    Answered2xx =>
        LET b == call.outcome.body
        IN /\ FirstIsRecord(b) => ProjectionOf(b.items[1].obj)
           /\ IsRecord(b) => ProjectionOf(b.obj)
           /\ OtherBody(b) => ~actResult.ok /\ ErrorKind(actResult) = "NotFound"

\* C18 without the arrays whose first element is a non-empty value other than
\* an object
C18_HoldsForFalsyFirst ==
    Answered2xx =>
        LET b == call.outcome.body
        IN /\ FirstIsRecord(b) => ProjectionOf(b.items[1].obj)
           /\ IsRecord(b) => ProjectionOf(b.obj)
           /\ (OtherBody(b) /\ ~(b.t = "array" /\ Len(b.items) > 0
                                  /\ DocTruthy(b.items[1]))) =>
                 ~actResult.ok /\ ErrorKind(actResult) = "NotFound"

----------------------------------------------------------------------------
(* ContainerAgent.process_query.  A text is a sequence of pieces, the piece  *)
(* " " standing for white space; the model is taken by what it answers.      *)

Blank == " "

RECURSIVE StripLeft(_)
StripLeft(text) ==
    IF text = <<>> THEN <<>>
    ELSE IF Head(text) = Blank THEN StripLeft(Tail(text)) ELSE text

RECURSIVE StripRight(_)
StripRight(text) ==
    IF text = <<>> THEN <<>>
    ELSE IF Last(text) = Blank THEN StripRight(SubSeq(text, 1, Len(text) - 1)) ELSE text

\* str.strip()
Strip(text) == StripRight(StripLeft(text))

TextPart(text) == [t |-> "text", text |-> text]
CallPart(name, args) == [t |-> "call", name |-> name, args |-> args]

\* the loop over candidate.content.parts: the text gathered, and the arguments
\* of the first query_container call if there is one
RECURSIVE ScanParts(_, _)
ScanParts(parts, acc) ==
    IF parts = <<>> THEN [called |-> FALSE, text |-> acc]
    ELSE LET part == Head(parts)
         IN IF part.t = "call"
            THEN IF part.name = "query_container"
                 THEN [called |-> TRUE, text |-> acc, args |-> part.args]
                 ELSE ScanParts(Tail(parts), acc)
            ELSE IF part.text # <<>>
            THEN ScanParts(Tail(parts), acc \o part.text \o <<Blank>>)
            ELSE ScanParts(Tail(parts), acc)

NeedContainerId ==
    <<"I need a container ID to query. Please provide a container ID in your query.">>

\* raw_data attached whenever the tool was called
FinishQuery_raw_data_always(container_id, int, ai_response, tool_result) ==
    LET text == IF (~Truthy(container_id) \/ ~Truthy(int)) /\ ai_response = <<>>
                THEN <<"I need a container ID to query.">>
                ELSE ai_response
        result == [container_id |-> container_id, intent |-> int,
                   response |-> StripRight(StripLeft(text))]
    IN IF tool_result # NoResult
       THEN result @@ [raw_data |-> tool_result]
       ELSE result

\* the end of the try block: the default message, strip(), the result dict
FinishQuery(container_id, int, ai_response, tool_result) ==
    LET text == IF (~Truthy(container_id) \/ ~Truthy(int)) /\ ai_response = <<>>
                THEN NeedContainerId
                ELSE ai_response
        result == [container_id |-> container_id, intent |-> int,
                   response |-> Strip(text)]
    IN IF tool_result # NoResult /\ "error" \notin DOMAIN tool_result
       THEN result @@ [raw_data |-> tool_result]
       ELSE result

\* the except branch
QueryFailed(err) ==
    [container_id |-> None, intent |-> None,
     response |-> IF err = "429 RESOURCE_EXHAUSTED"
                  THEN <<"I'm currently experiencing high demand from the AI service.">>
                  ELSE <<"Error processing query: ", err>>,
     error |-> IF err = "429 RESOURCE_EXHAUSTED"
               THEN "Rate limit exceeded. Please try again in a moment."
               ELSE err]

\* the text after the tool call: the text of the final answer, else the text
\* gathered so far, else a message built from the tool result
AfterToolText(final_text, gathered, container_id, tool_result) ==
    LET text == IF final_text # <<>> THEN final_text ELSE gathered
    IN IF text = <<>> \/ Strip(text) = <<>>
       THEN IF "error" \in DOMAIN tool_result
            THEN <<"Error: ", tool_result.error>>
            ELSE <<"Container ", container_id, " information: ", "json">>
       ELSE text

AgentTexts == {<<>>, <<Blank>>, <<"Which container do you mean?">>}
\* function_call.args is None
NoArgs == [none |-> TRUE]

AgentArgs ==
    {[container_id |-> "'MSCU1234567'", intent |-> "'status'"],
     [container_id |-> "'MSCU1234567'"],
     <<>>,
     NoArgs}
AgentParts ==
    {TextPart(text) : text \in AgentTexts}
      \cup {CallPart("query_container", a) : a \in AgentArgs}
      \cup {CallPart("other_tool", <<>>)}
ModelFailures == {"429 RESOURCE_EXHAUSTED", "500 INTERNAL"}
\* dict(None)
ArgsFailure == "'NoneType' object is not iterable"
MaxParts == 2
ModelAnswers ==
    {[kind |-> "raise", err |-> e] : e \in ModelFailures}
      \cup {[kind |-> "content", parts |-> ps] :
               ps \in UNION {[1..n -> AgentParts] : n \in 0..MaxParts}}
FinalAnswers ==
    {[kind |-> "raise", err |-> e] : e \in ModelFailures}
      \cup {[kind |-> "content", text |-> text] : text \in AgentTexts}
SampleBody ==
    [container_id |-> "'MSCU1234567'", intent |-> "'status'",
     data |-> [status |-> "'Departed'"], workflow_id |-> "pnct-scrape-MSCU1234567-status"]
ToolPosts ==
    {HttpOk(SampleBody), HttpError(404, "Container not found"),
     HttpError(500, "PNCT Scraper API error"), HttpError(422, "validation error"),
     HttpError(504, "Timeout waiting for PNCT Scraper API response"),
     TransportFailure("ReadTimeout"), TransportFailure("RemoteProtocolError")}

NoAgent ==
    [pc |-> "idle", model |-> NoCall, gathered |-> <<>>, container_id |-> None,
     intent |-> None, toolCalls |-> 0, tool_result |-> NoResult, result |-> NoResult,
     reply |-> NoResult]

AgentInit ==
    /\ agent = NoAgent
    /\ tool = <<>>
    /\ clock = 0
    /\ ProjIdle
    /\ ActIdle
    /\ SysIdle

AgentRest == <<projVars, actVars, sysVars, clock, tool>>

\* process_query up to the return, or up to the call of call_mcp_tool
ProcessQuery ==
    /\ agent.pc = "idle"
    /\ \E m \in ModelAnswers :
          agent' =
            IF m.kind = "raise"
            THEN [agent EXCEPT !.pc = "done", !.model = m, !.result = QueryFailed(m.err)]
            ELSE LET scan == ScanParts(m.parts, <<>>)
                 IN IF scan.called /\ scan.args = NoArgs
                    THEN [agent EXCEPT !.pc = "done", !.model = m,
                                       !.gathered = scan.text,
                                       !.result = QueryFailed(ArgsFailure)]
                    ELSE IF scan.called
                    THEN [agent EXCEPT !.pc = "tool", !.model = m,
                                       !.gathered = scan.text,
                                       !.container_id =
                                           Get(scan.args, "container_id", None),
                                       !.intent = Get(scan.args, "intent", None),
                                       !.toolCalls = @ + 1]
                    ELSE [agent EXCEPT !.pc = "done", !.model = m,
                                       !.gathered = scan.text,
                                       !.result =
                                           FinishQuery(None, None, scan.text, NoResult)]
    /\ UNCHANGED AgentRest

\* call_mcp_tool returns: the second generate_content, the text, the return
ToolAnswered ==
    /\ agent.pc = "tool"
    /\ \E post \in ToolPosts, final \in FinalAnswers :
          LET tool_result == call_mcp_tool(post)
          IN agent' =
               IF final.kind = "raise"
               THEN [agent EXCEPT !.pc = "done", !.tool_result = tool_result,
                                  !.result = QueryFailed(final.err)]
               ELSE [agent EXCEPT
                       !.pc = "done", !.tool_result = tool_result,
                       !.result =
                           FinishQuery(agent.container_id, agent.intent,
                                       AfterToolText(final.text, agent.gathered,
                                                     agent.container_id, tool_result),
                                       tool_result)]
    /\ UNCHANGED AgentRest

\* container_query after process_query returned result
container_query(result) ==
    [container_id |-> Get(result, "container_id", None),
     intent |-> Get(result, "intent", None),
     response |-> Get(result, "response", <<"Query processed successfully">>),
     success |-> TRUE,
     error |-> None,
     raw_data |-> Get(result, "raw_data", None)]

\* the except branch of container_query
ContainerQueryFailed(err) ==
    [container_id |-> None, intent |-> None,
     response |-> <<"Error processing query: ", err>>,
     success |-> FALSE, error |-> err, raw_data |-> None]

MissingApiKey == "GEMINI_API_KEY environment variable is required"

\* POST /container/query: process_query has returned, the response is built
ContainerQueryReturn ==
    /\ agent.pc = "done"
    /\ agent' = [agent EXCEPT !.pc = "replied", !.reply = container_query(agent.result)]
    /\ UNCHANGED AgentRest

\* POST /container/query: ContainerAgent() raises, no API key is configured
ContainerQueryNoAgent ==
    /\ agent.pc = "idle"
    /\ agent' = [agent EXCEPT !.pc = "replied",
                               !.reply = ContainerQueryFailed(MissingApiKey)]
    /\ UNCHANGED AgentRest

AgentNext ==
    \/ ProcessQuery
    \/ ToolAnswered
    \/ ContainerQueryReturn
    \/ ContainerQueryNoAgent

AgentSpec == AgentInit /\ [][AgentNext]_vars

----------------------------------------------------------------------------
(* Claims about the agent *)

\* the model answered, without a query_container function call
NoQueryCall ==
    /\ agent.model # NoCall
    /\ agent.model.kind = "content"
    /\ \A i \in 1..Len(agent.model.parts) :
          ~(agent.model.parts[i].t = "call"
              /\ agent.model.parts[i].name = "query_container")

\* C19: when the model returns no query_container function call,
\* process_query calls the tool server not once and returns a response that
\* is not empty, with container_id and intent both null.
C19_ClarificationWithoutCall ==
    (agent.pc = "done" /\ NoQueryCall) =>
        /\ agent.toolCalls = 0
        /\ agent.tool_result = NoResult
        /\ agent.result.container_id = None
        /\ agent.result.intent = None
        /\ agent.result.response # <<>>

\* C19 for the answers whose text is not white space alone
C19_HoldsUnlessBlank ==
    (agent.pc = "done" /\ NoQueryCall
        /\ (agent.gathered = <<>> \/ Strip(agent.gathered) # <<>>)) =>
        /\ agent.toolCalls = 0
        /\ agent.tool_result = NoResult
        /\ agent.result.container_id = None
        /\ agent.result.intent = None
        /\ agent.result.response # <<>>

----------------------------------------------------------------------------
(* Claims about the coordinates of the location view *)

\* the record holds the key with a value other than null
HasValue(r, key) == key \in DOMAIN r /\ r[key] # None

\* C20: the location view has a coordinates entry exactly when Block and Bay
\* are both present in the raw record, whatever their values (empty and zero
\* included), and the entry is the pair lat 40.7032, lon -74.1468.
C20_CoordinatesWhenPresent ==
    intent = "location" =>
        /\ "coordinates" \in DOMAIN view <=>
              (HasValue(record, "Block") /\ HasValue(record, "Bay"))
        /\ "coordinates" \in DOMAIN view =>
              view.coordinates = [lat |-> "40.7032", lon |-> "-74.1468"]

\* what the code does: the entry is there exactly when both values are
\* non-empty, non-zero and not null
C20_CoordinatesWhenTruthy ==
    intent = "location" =>
        /\ "coordinates" \in DOMAIN view <=>
              /\ "Block" \in DOMAIN record /\ record.Block \notin {None, "''", "0"}
              /\ "Bay" \in DOMAIN record /\ record.Bay \notin {None, "''", "0"}
        /\ "coordinates" \in DOMAIN view =>
              view.coordinates = [lat |-> "40.7032", lon |-> "-74.1468"]

\* C21: process_query always returns a mapping with the keys container_id,
\* intent and response, whatever the model answers and whatever the tool call
\* gives; it calls the tool server at most once per query; raw_data is in the
\* result only when the tool call returned a result without an 'error' key.
C21_AlwaysAResult ==
    /\ agent.toolCalls <= 1
    /\ agent.pc = "tool" => agent.toolCalls = 1
    /\ agent.pc = "done" =>
          /\ {"container_id", "intent", "response"} \subseteq DOMAIN agent.result
          /\ DOMAIN agent.result \subseteq
                {"container_id", "intent", "response", "raw_data", "error"}
          /\ "raw_data" \in DOMAIN agent.result =>
                /\ agent.toolCalls = 1
                /\ agent.tool_result # NoResult
                /\ "error" \notin DOMAIN agent.tool_result
                /\ agent.result.raw_data = agent.tool_result
          /\ agent.tool_result = NoResult => "raw_data" \notin DOMAIN agent.result

\* the model asked for the tool twice in one answer and the tool call failed
C21_Witness ==
    /\ agent.pc = "done"
    /\ agent.model.kind = "content"
    /\ Len(agent.model.parts) = 2
    /\ \A i \in 1..2 : agent.model.parts[i].t = "call"
                          /\ agent.model.parts[i].name = "query_container"
    /\ agent.toolCalls = 1
    /\ agent.tool_result = ToolError("NETWORK_ERROR")
    /\ "raw_data" \notin DOMAIN agent.result

\* a tool result without error is handed on
C21_WitnessRawData ==
    agent.pc = "done" /\ "raw_data" \in DOMAIN agent.result

\* an exception inside the try block is answered, not raised
C21_WitnessCaught ==
    agent.pc = "done" /\ agent.tool_result = SampleBody
        /\ "error" \in DOMAIN agent.result

\* the query ran into an error: the model failed, or the tool call did
QueryHadError ==
    /\ agent.result # NoResult
    /\ \/ "error" \in DOMAIN agent.result
       \/ agent.tool_result # NoResult /\ "error" \in DOMAIN agent.tool_result

\* C22: POST /container/query reports success=true only for a query that was
\* processed without error: when the agent's result carries an 'error' or the
\* tool call returned an error, the response has success=false and an error
\* that is not null.
C22_SuccessOnlyWithoutError ==
    (agent.pc = "replied" /\ QueryHadError) =>
        /\ agent.reply.success = FALSE
        /\ agent.reply.error # None

\* what the handler does: whatever process_query returns is reported as a
\* success without error
C22_EveryReturnIsSuccess ==
    (agent.pc = "replied" /\ agent.result # NoResult) =>
        /\ agent.reply.success = TRUE
        /\ agent.reply.error = None

C23_WitnessTimeout ==
    tool.toolHow = "gaveup" /\ tool.toolErr = "ReadTimeout"
        /\ tool.toolResp.status = 504

C23_WitnessOther ==
    tool.toolHow = "mapped" /\ tool.scrapeResp.status = 503
        /\ tool.toolResp.status = 500

----------------------------------------------------------------------------
(* One invocation with time, called by the agent through the tool server:   *)
(* both post at time 0 and wait for the answer of POST /scrape              *)

\* httpx.AsyncClient(timeout=...) of ContainerAgent and of the tool server
AgentTimeout == 30
ToolTimeout == 60

\* the tool server gets the answer of POST /scrape at time t, or gives up
\* waiting for it
ToolReplyAt(t, scrapeResp) ==
    IF t < ToolTimeout
    THEN tool_query_container(scrapeResp)
    ELSE tool_query_container(TransportFailure("ReadTimeout"))

\* call_mcp_tool gets the answer of the tool server, which comes at time t or
\* when the tool server gave up, or gives up waiting for it
AgentResultAt(t, scrapeResp) ==
    IF Min(t, ToolTimeout) < AgentTimeout
    THEN call_mcp_tool(ToolReplyAt(t, scrapeResp))
    ELSE call_mcp_tool(TransportFailure("ReadTimeout"))

\* handle.result() returns or raises and scrape() answers; what the tool
\* server and the agent make of it
TimedDeliver(r) ==
    /\ ScrapeReturnStep(r)
    /\ LET resp == ScrapeResponse(req[r].container_id, req[r].intent, wf[r])
       IN timing' = [timing EXCEPT
                        !.toolReply = ToolReplyAt(timing.now, resp),
                        !.agentResult = AgentResultAt(timing.now, resp)]
    /\ UNCHANGED <<wf, projVars, actVars, clock, callerVars>>

TierNext ==
    \/ TimedNext
    \/ TimedDeliver(TimedRequest)

TierSpec == TimedInit /\ [][TierNext]_vars

\* the workflow ended in Success and POST /scrape has answered
SuccessAnswered ==
    /\ req[TimedRequest].pc = "done"
    /\ wf[TimedRequest].state = "Success"

\* C24: each tier waits at least as long as the tier it calls can take: the
\* result of a workflow that succeeds, be it on its second or third attempt
\* after 60 s timeouts and 1 s and 2 s of backoff, is delivered to the agent;
\* neither the agent (30 s) nor the tool server (60 s) gives up first.
C24_TiersWaitLongEnough ==
    SuccessAnswered =>
        /\ timing.toolReply = HttpOk(req[TimedRequest].response.body)
        /\ timing.agentResult = req[TimedRequest].response.body

\* a success within 30 s is delivered
C24_DeliveredWhenFast ==
    (SuccessAnswered /\ timing.now < 30) =>
        /\ timing.toolReply = HttpOk(req[TimedRequest].response.body)
        /\ timing.agentResult = req[TimedRequest].response.body

\* a success after 30 s or more is lost to the agent, after 60 s or more to
\* the tool server as well
C24_LateSuccessLost ==
    /\ (SuccessAnswered /\ timing.now >= 30) =>
          timing.agentResult = ToolError("NETWORK_ERROR")
    /\ (SuccessAnswered /\ timing.now >= 60) => timing.toolReply.status = 504
    /\ (SuccessAnswered /\ Len(timing.starts) >= 2 /\ StartToCloseTimedOut(1)) =>
          timing.agentResult = ToolError("NETWORK_ERROR")

====
